---- MODULE Spec2Model ----
(***************************************************************************)
(* react-value-storage: the path parser, the tree mutator (deepSet,        *)
(* deepGet, deepRemove, deepClone) and the KeyValueStorage facade.         *)
(*                                                                         *)
(* JavaScript objects and arrays are reference values, so the model keeps  *)
(* a heap: a sequence of container nodes addressed by their position.  A   *)
(* value is a scalar record or a reference [t |-> "ref", a |-> address].   *)
(* A path string is a sequence of one-character strings.                   *)
(*                                                                         *)
(* Scope: property names are ordinary data keys; "length" and the names a  *)
(* JavaScript object inherits ("__proto__", "constructor", "toString",     *)
(* ...) are not modelled.                                                  *)
(***************************************************************************)
EXTENDS Integers, Sequences, FiniteSets, TLC

VARIABLES
    heap,      \* the JavaScript heap: Seq of container nodes
    handles,   \* KeyValueStorage instances: handles[h] is the address of _storage
    last,      \* the last call: its arguments, its outcome and the heap before it
    nops,      \* number of calls made so far
    hook       \* useLocalStorage: the instance the rendered closures hold (captured) and
               \* the one passed to setKeyValueStorage for the next render (pending, 0: none)

vars == <<heap, handles, last, nops, hook>>

-----------------------------------------------------------------------------
(* Bound: the number of calls made on the handles *)

MaxOps == 2

-----------------------------------------------------------------------------
(* Values *)

Undef == [t |-> "undefined"]
Null == [t |-> "null"]
Hole == [t |-> "hole"]              \* an array position that holds no element
Num(n) == [t |-> "number", v |-> n]
Str(s) == [t |-> "string", v |-> s] \* s: a sequence of characters
Bool(b) == [t |-> "boolean", v |-> b]
Ref(a) == [t |-> "ref", a |-> a]

\* x == null
IsNullish(x) == x.t \in {"undefined", "null"}

\* typeof x !== 'object' for a value that is not nullish
IsRaw(x) == x.t \in {"string", "number", "boolean"}

EmptyFcn == [x \in {} |-> Undef]

\* the literal []
EmptyArray == [t |-> "array", len |-> 0, e |-> EmptyFcn, p |-> EmptyFcn]

\* the literal {}
EmptyObject == [t |-> "object", e |-> EmptyFcn]

\* f with x mapped to y, x added to the domain when it is not in it
Put(f, x, y) == [z \in (DOMAIN f) \cup {x} |-> IF z = x THEN y ELSE f[z]]

\* f without x
Drop(f, x) == [z \in (DOMAIN f) \ {x} |-> f[z]]

-----------------------------------------------------------------------------
(* Path parser *)

Key(s) == [k |-> "key", s |-> s]
Index(n) == [k |-> "index", n |-> n]

DigitChars == <<"0", "1", "2", "3", "4", "5", "6", "7", "8", "9">>

\* \d
IsDigit(c) == \E d \in 1..10 : DigitChars[d] = c

DigitVal(c) == (CHOOSE d \in 1..10 : DigitChars[d] = c) - 1

\* [^[.\]]
IsSegChar(c) == c \notin {"[", ".", "]"}

\* Number(digits)
RECURSIVE NumberOf(_)
NumberOf(cs) ==
    IF cs = <<>> THEN 0
    ELSE NumberOf(SubSeq(cs, 1, Len(cs) - 1)) * 10 + DigitVal(cs[Len(cs)])

\* String(n), the property name an index is looked up under in an object
RECURSIVE NumStr(_)
NumStr(n) ==
    IF n < 10 THEN DigitChars[n + 1]
    ELSE NumStr(n \div 10) \o DigitChars[(n % 10) + 1]

\* the characters of cs as one string
RECURSIVE Concat(_)
Concat(cs) == IF cs = <<>> THEN "" ELSE cs[1] \o Concat(Tail(cs))

\* the first position >= i of path that does not satisfy the class (greedy +)
RECURSIVE RunEnd(_, _, _)
RunEnd(path, i, digits) ==
    IF i > Len(path) THEN i
    ELSE IF (IF digits THEN IsDigit(path[i]) ELSE IsSegChar(path[i]))
         THEN RunEnd(path, i + 1, digits)
         ELSE i

AllDigits(cs) == \A i \in 1..Len(cs) : IsDigit(cs[i])

\* re.exec from position i on, until no match is left
RECURSIVE Scan(_, _)
Scan(path, i) ==
    IF i > Len(path) THEN <<>>
    ELSE IF IsSegChar(path[i]) THEN
        LET j == RunEnd(path, i, FALSE)
            dotSeg == SubSeq(path, i, j - 1)
        IN  <<IF AllDigits(dotSeg) THEN Index(NumberOf(dotSeg)) ELSE Key(Concat(dotSeg))>>
                \o Scan(path, j)
    ELSE IF path[i] = "[" THEN
        LET j == RunEnd(path, i + 1, TRUE)
        IN  IF j > i + 1 /\ j <= Len(path) /\ path[j] = "]"
            THEN <<Index(NumberOf(SubSeq(path, i + 1, j - 1)))>> \o Scan(path, j + 1)
            ELSE Scan(path, i + 1)
    ELSE Scan(path, i + 1)

\* Faulty variant of parsePath: the /^\d+$/ test is missing, a dotted token stays a string
RECURSIVE ScanDigitsAsKey(_, _)
ScanDigitsAsKey(path, i) ==
    IF i > Len(path) THEN <<>>
    ELSE IF IsSegChar(path[i]) THEN
        LET j == RunEnd(path, i, FALSE)
        IN  <<Key(Concat(SubSeq(path, i, j - 1)))>> \o ScanDigitsAsKey(path, j)
    ELSE IF path[i] = "[" THEN
        LET j == RunEnd(path, i + 1, TRUE)
        IN  IF j > i + 1 /\ j <= Len(path) /\ path[j] = "]"
            THEN <<Index(NumberOf(SubSeq(path, i + 1, j - 1)))>> \o ScanDigitsAsKey(path, j + 1)
            ELSE ScanDigitsAsKey(path, i + 1)
    ELSE ScanDigitsAsKey(path, i + 1)

parsePath_DigitsAsKey(path) == ScanDigitsAsKey(path, 1)

parsePath(path) == Scan(path, 1)

WhiteSpace == {" ", "\t", "\n"}

\* String.prototype.trim
RECURSIVE Trim(_)
Trim(s) ==
    IF s = <<>> THEN s
    ELSE IF s[1] \in WhiteSpace THEN Trim(Tail(s))
    ELSE IF s[Len(s)] \in WhiteSpace THEN Trim(SubSeq(s, 1, Len(s) - 1))
    ELSE s

-----------------------------------------------------------------------------
(* Property access on the heap *)

\* the property name a segment is looked up under in a mapping
PropName(key) == IF key.k = "index" THEN NumStr(key.n) ELSE key.s

\* curr[key] for a curr that is not null or undefined
PropGet(h, curr, key) ==
    IF curr.t = "ref" THEN
        LET node == h[curr.a] IN
        IF node.t = "array" THEN
            IF key.k = "index" THEN
                IF key.n < node.len /\ node.e[key.n] # Hole THEN node.e[key.n] ELSE Undef
            ELSE IF key.s \in DOMAIN node.p THEN node.p[key.s] ELSE Undef
        ELSE
            IF PropName(key) \in DOMAIN node.e THEN node.e[PropName(key)] ELSE Undef
    ELSE IF curr.t = "string" THEN
        IF key.k = "index" THEN
            IF key.n < Len(curr.v) THEN Str(<<curr.v[key.n + 1]>>) ELSE Undef
        ELSE Undef
    ELSE Undef

\* node[key] = value on a container node
NodeSet(node, key, value) ==
    IF node.t = "array" THEN
        IF key.k = "index" THEN
            LET len == IF key.n < node.len THEN node.len ELSE key.n + 1
            IN  [node EXCEPT !.len = len,
                             !.e = [i \in 0..(len - 1) |->
                                       IF i = key.n THEN value
                                       ELSE IF i < node.len THEN node.e[i] ELSE Hole]]
        ELSE [node EXCEPT !.p = Put(node.p, key.s, value)]
    ELSE [node EXCEPT !.e = Put(node.e, PropName(key), value)]

\* parentItem[key] = value, parentItem the container at address parent
PropSet(h, parent, key, value) == [h EXCEPT ![parent] = NodeSet(h[parent], key, value)]

\* delete node[key] on a container node
NodeDelete(node, key) ==
    IF node.t = "array" THEN
        IF key.k = "index" THEN
            IF key.n < node.len THEN [node EXCEPT !.e[key.n] = Hole] ELSE node
        ELSE [node EXCEPT !.p = Drop(node.p, key.s)]
    ELSE [node EXCEPT !.e = Drop(node.e, PropName(key))]

\* delete curr[key]
PropDelete(h, curr, key) ==
    IF curr.t = "ref" THEN [h EXCEPT ![curr.a] = NodeDelete(h[curr.a], key)] ELSE h

\* Faulty variant of the conversion: a new {} in place of { ...keyItem }
Spread_Discard(node) == EmptyObject

\* { ...keyItem } of an array: its own enumerable properties, holes skipped
Spread(node) ==
    LET idx == {i \in 0..(node.len - 1) : node.e[i] # Hole}
        names == {NumStr(i) : i \in idx} \cup DOMAIN node.p
    IN  [t |-> "object",
         e |-> [n \in names |->
                   IF n \in DOMAIN node.p THEN node.p[n]
                   ELSE node.e[CHOOSE i \in idx : NumStr(i) = n]]]

-----------------------------------------------------------------------------
(* Tree mutator *)

\* keys.forEach((key, i) => ...) of deepSet from iteration i on
RECURSIVE SetWalk(_, _, _, _, _)
SetWalk(h, parentItem, keys, i, value) ==
    IF i > Len(keys) THEN [heap |-> h, err |-> "none"]
    ELSE
        LET key == keys[i] IN
        IF i = Len(keys) THEN [heap |-> PropSet(h, parentItem, key, value), err |-> "none"]
        ELSE
            LET shouldBeArray == keys[i + 1].k = "index"
                keyItem == PropGet(h, Ref(parentItem), key)
                fresh == Len(h) + 1
            IN  IF IsNullish(keyItem) THEN
                    SetWalk(PropSet(Append(h, IF shouldBeArray THEN EmptyArray ELSE EmptyObject),
                                    parentItem, key, Ref(fresh)),
                            fresh, keys, i + 1, value)
                ELSE IF IsRaw(keyItem) THEN [heap |-> h, err |-> "RawValueDetected"]
                ELSE IF ~shouldBeArray /\ h[keyItem.a].t = "array" THEN
                    SetWalk(PropSet(Append(h, Spread(h[keyItem.a])), parentItem, key, Ref(fresh)),
                            fresh, keys, i + 1, value)
                ELSE SetWalk(h, keyItem.a, keys, i + 1, value)

\* Faulty variants of deepSet.  "detached": the converted copy of a list is not assigned
\* back to parentItem[key].  "overwrite": a raw value in the way is replaced by a new
\* container instead of being refused.  "hindsight": the shape of a container is taken
\* from the segment that leads to it instead of the one that follows.
RECURSIVE SetWalkSlip(_, _, _, _, _, _)
SetWalkSlip(h, parentItem, keys, i, value, slip) ==
    IF i > Len(keys) THEN [heap |-> h, err |-> "none"]
    ELSE
        LET key == keys[i] IN
        IF i = Len(keys) THEN [heap |-> PropSet(h, parentItem, key, value), err |-> "none"]
        ELSE
            LET shouldBeArray == IF slip = "hindsight" THEN key.k = "index"
                                 ELSE keys[i + 1].k = "index"
                keyItem == PropGet(h, Ref(parentItem), key)
                fresh == Len(h) + 1
            IN  IF IsNullish(keyItem) \/ (slip = "overwrite" /\ IsRaw(keyItem)) THEN
                    SetWalkSlip(PropSet(Append(h, IF shouldBeArray THEN EmptyArray
                                                  ELSE EmptyObject),
                                        parentItem, key, Ref(fresh)),
                                fresh, keys, i + 1, value, slip)
                ELSE IF IsRaw(keyItem) THEN [heap |-> h, err |-> "RawValueDetected"]
                ELSE IF ~shouldBeArray /\ h[keyItem.a].t = "array" THEN
                    SetWalkSlip(IF slip = "detached" THEN Append(h, Spread(h[keyItem.a]))
                                ELSE PropSet(Append(h, Spread(h[keyItem.a])),
                                             parentItem, key, Ref(fresh)),
                                fresh, keys, i + 1, value, slip)
                ELSE SetWalkSlip(h, keyItem.a, keys, i + 1, value, slip)

deepSet_DetachedCopy(h, obj, path, value) ==
    SetWalkSlip(h, obj, parsePath(path), 1, value, "detached")

deepSet_OverwriteRaw(h, obj, path, value) ==
    SetWalkSlip(h, obj, parsePath(path), 1, value, "overwrite")

deepSet_Hindsight(h, obj, path, value) ==
    SetWalkSlip(h, obj, parsePath(path), 1, value, "hindsight")

deepSet(h, obj, path, value) == SetWalk(h, obj, parsePath(path), 1, value)

\* for (const key of keys) of deepGet from position i on
RECURSIVE GetWalk(_, _, _, _)
GetWalk(h, curr, keys, i) ==
    IF i > Len(keys) THEN [heap |-> h, val |-> curr, err |-> "none"]
    ELSE IF IsNullish(curr) THEN [heap |-> h, val |-> Undef, err |-> "KeyNotFound"]
    ELSE GetWalk(h, PropGet(h, curr, keys[i]), keys, i + 1)

\* Faulty variant of deepGet: the null test is made after the lookup instead of before it
RECURSIVE GetWalkCheckAfter(_, _, _, _)
GetWalkCheckAfter(h, curr, keys, i) ==
    IF i > Len(keys) THEN [heap |-> h, val |-> curr, err |-> "none"]
    ELSE LET found == PropGet(h, curr, keys[i])
         IN  IF IsNullish(found) THEN [heap |-> h, val |-> Undef, err |-> "KeyNotFound"]
             ELSE GetWalkCheckAfter(h, found, keys, i + 1)

deepGet_CheckAfter(h, obj, path) == GetWalkCheckAfter(h, Ref(obj), parsePath(path), 1)

deepGet(h, obj, path) == GetWalk(h, Ref(obj), parsePath(path), 1)

\* for (const key of keys) of deepRemove from position n on; the counter i of the
\* source is initialised to 0 and never incremented
RECURSIVE RemoveWalk(_, _, _, _)
RemoveWalk(h, curr, keys, n) ==
    IF n > Len(keys) THEN [heap |-> h, err |-> "none"]
    ELSE IF IsNullish(curr) THEN [heap |-> h, err |-> "none"]
    ELSE
        LET i == 0
            isLast == i = Len(keys) - 1
            h1 == IF isLast THEN PropDelete(h, curr, keys[n]) ELSE h
        IN  RemoveWalk(h1, PropGet(h1, curr, keys[n]), keys, n + 1)

\* Faulty variant of deepRemove: no null test, and a property of null or undefined is a
\* TypeError
RECURSIVE RemoveWalkNoGuard(_, _, _, _)
RemoveWalkNoGuard(h, curr, keys, n) ==
    IF n > Len(keys) THEN [heap |-> h, err |-> "none"]
    ELSE IF IsNullish(curr) THEN [heap |-> h, err |-> "TypeError"]
    ELSE
        LET i == 0
            isLast == i = Len(keys) - 1
            h1 == IF isLast THEN PropDelete(h, curr, keys[n]) ELSE h
        IN  RemoveWalkNoGuard(h1, PropGet(h1, curr, keys[n]), keys, n + 1)

deepRemove_NoNullGuard(h, obj, path) ==
    LET r == RemoveWalkNoGuard(h, Ref(obj), parsePath(path), 1)
    IN  [heap |-> r.heap, ret |-> Undef, err |-> r.err]

\* deepRemove has two parameters and returns nothing
deepRemove(h, obj, path) ==
    LET r == RemoveWalk(h, Ref(obj), parsePath(path), 1)
    IN  [heap |-> r.heap, ret |-> Undef, err |-> r.err]

RECURSIVE CloneVal(_, _), CloneItems(_, _, _, _), CloneProps(_, _, _, _)

\* obj.map(item => deepClone(item)): positions i.. of src copied into acc; map skips holes
CloneItems(h, src, i, acc) ==
    IF i >= src.len THEN [heap |-> h, node |-> acc]
    ELSE IF src.e[i] = Hole THEN CloneItems(h, src, i + 1, acc)
    ELSE LET c == CloneVal(h, src.e[i])
         IN  CloneItems(c.heap, src, i + 1, [acc EXCEPT !.e[i] = c.val])

\* for (const key in obj) clonedObj[key] = deepClone(obj[key]), over the names left
CloneProps(h, src, names, acc) ==
    IF names = {} THEN [heap |-> h, node |-> acc]
    ELSE LET key == CHOOSE k \in names : TRUE
             c == CloneVal(h, src.e[key])
         IN  CloneProps(c.heap, src, names \ {key}, [acc EXCEPT !.e = Put(acc.e, key, c.val)])

CloneVal(h, obj) ==
    IF obj.t # "ref" THEN [heap |-> h, val |-> obj]
    ELSE
        LET src == h[obj.a]
            r == IF src.t = "array"
                 THEN CloneItems(h, src, 0,
                                 [t |-> "array", len |-> src.len,
                                  e |-> [i \in 0..(src.len - 1) |-> Hole], p |-> EmptyFcn])
                 ELSE CloneProps(h, src, DOMAIN src.e, EmptyObject)
        IN  [heap |-> Append(r.heap, r.node), val |-> Ref(Len(r.heap) + 1)]

\* Faulty variant of deepClone: a shallow copy { ...obj }, the children shared
deepClone_Shallow(h, obj) ==
    IF obj.t # "ref" THEN [heap |-> h, val |-> obj]
    ELSE [heap |-> Append(h, h[obj.a]), val |-> Ref(Len(h) + 1)]

deepClone(h, obj) == CloneVal(h, obj)

-----------------------------------------------------------------------------
(* Trees as values: what is reachable from a value, references followed *)

RECURSIVE View(_, _)
View(h, x) ==
    IF x.t # "ref" THEN x
    ELSE LET node == h[x.a] IN
         IF node.t = "array"
         THEN [node EXCEPT !.e = [i \in DOMAIN node.e |-> View(h, node.e[i])],
                           !.p = [k \in DOMAIN node.p |-> View(h, node.p[k])]]
         ELSE [node EXCEPT !.e = [k \in DOMAIN node.e |-> View(h, node.e[k])]]

\* the addresses of the containers reachable from x
RECURSIVE Reach(_, _)
Reach(h, x) ==
    IF x.t # "ref" THEN {}
    ELSE LET node == h[x.a] IN
         {x.a} \cup UNION {Reach(h, node.e[k]) : k \in DOMAIN node.e}
               \cup (IF node.t = "array"
                     THEN UNION {Reach(h, node.p[k]) : k \in DOMAIN node.p} ELSE {})

\* a literal evaluated by the caller: every container of the tree value is a new object
RECURSIVE Build(_, _), BuildAll(_, _, _, _)
BuildAll(h, tree, ks, acc) ==
    IF ks = {} THEN [heap |-> h, node |-> acc]
    ELSE LET k == CHOOSE x \in ks : TRUE
             c == Build(h, tree.e[k])
         IN  BuildAll(c.heap, tree, ks \ {k}, [acc EXCEPT !.e[k] = c.val])

Build(h, tree) ==
    IF tree.t \notin {"array", "object"} THEN [heap |-> h, val |-> tree]
    ELSE LET r == BuildAll(h, tree, DOMAIN tree.e, tree)
         IN  [heap |-> Append(r.heap, r.node), val |-> Ref(Len(r.heap) + 1)]

\* literals
Arr(items) ==
    [t |-> "array", len |-> Len(items), e |-> [i \in 0..(Len(items) - 1) |-> items[i + 1]],
     p |-> EmptyFcn]
Obj(e) == [t |-> "object", e |-> e]

-----------------------------------------------------------------------------
(* KeyValueStorage: storage is the address of this._storage *)

\* Faulty variant of setValue: it tests key === '' without trimming
setValue_NoTrim(h, storage, key, value) ==
    IF key = <<>> THEN [heap |-> h, err |-> "KeyFormatException"]
    ELSE deepSet(h, storage, Trim(key), value)

setValue(h, storage, key, value) ==
    IF Trim(key) = <<>> THEN [heap |-> h, err |-> "KeyFormatException"]
    ELSE deepSet(h, storage, Trim(key), value)

getValue(h, storage, key) ==
    IF Trim(key) = <<>> THEN [heap |-> h, val |-> Undef, err |-> "KeyFormatException"]
    ELSE deepGet(h, storage, Trim(key))

\* setUndefined is passed on as a third argument, which deepRemove does not take
delValue(h, storage, key, setUndefined) ==
    IF Trim(key) = <<>> THEN [heap |-> h, ret |-> Undef, err |-> "none"]
    ELSE deepRemove(h, storage, Trim(key))

\* new KeyValueStorage(deepClone(this._storage))
getClone(h, storage) == deepClone(h, Ref(storage))

-----------------------------------------------------------------------------
(* Inputs *)

\* path strings the callers pass
Paths ==
    { <<>>,                                  \* ""
      <<" ">>,                               \* " "
      <<".">>,                               \* "."
      <<"a">>,                               \* "a"
      <<" ", "b", " ">>,                     \* " b "
      <<"a", ".", "b">>,                     \* "a.b"
      <<"a", ".", "0">>,                     \* "a.0"
      <<"a", "[", "1", "]">>,                \* "a[1]"
      <<"a", ".", "0", ".", "b">>,           \* "a.0.b"
      <<"a", "[", "1", "]", ".", "b">>,      \* "a[1].b"
      <<"b", ".", "a">>,                     \* "b.a"
      <<"a", ".", "b", ".", "0">> }          \* "a.b.0"

\* values the callers write, as tree values
Values ==
    { Num(7), Undef, Arr(<<Num(7), Null>>), Obj([b |-> Str(<<"s">>)]) }

\* initialValue of the constructor
InitialValues ==
    { Obj(EmptyFcn),
      Obj([a |-> Arr(<<Obj([b |-> Num(7)]), Str(<<"s">>)>>), b |-> Bool(TRUE)]),
      Obj([a |-> Obj([b |-> Num(7)])]) }

-----------------------------------------------------------------------------
(* The calls *)

Call(name, hd, key, value, flag, err, ret) ==
    [name |-> name, hd |-> hd, key |-> key, value |-> value, flag |-> flag,
     err |-> err, ret |-> ret, pre |-> heap]

Init ==
    \E tree \in InitialValues :
        LET b == Build(<<>>, tree)
        IN  /\ heap = b.heap
            /\ handles = <<b.val.a>>
            /\ last = [name |-> "new", hd |-> 1, key |-> <<>>, value |-> tree, flag |-> FALSE,
                       err |-> "none", ret |-> Undef, pre |-> <<>>]
            /\ nops = 0
            /\ hook = [captured |-> 1, pending |-> 0]

SetValue(hd, key, value) ==
    LET b == Build(heap, value)
        r == setValue(b.heap, handles[hd], key, b.val)
    IN  /\ nops < MaxOps
        /\ heap' = r.heap
        /\ last' = Call("setValue", hd, key, value, FALSE, r.err, Undef)
        /\ nops' = nops + 1
        /\ UNCHANGED <<handles, hook>>

GetValue(hd, key) ==
    LET r == getValue(heap, handles[hd], key)
    IN  /\ nops < MaxOps
        /\ heap' = r.heap
        /\ last' = Call("getValue", hd, key, Undef, FALSE, r.err, r.val)
        /\ nops' = nops + 1
        /\ UNCHANGED <<handles, hook>>

DelValue(hd, key, setUndefined) ==
    LET r == delValue(heap, handles[hd], key, setUndefined)
    IN  /\ nops < MaxOps
        /\ heap' = r.heap
        /\ last' = Call("delValue", hd, key, Undef, setUndefined, r.err, r.ret)
        /\ nops' = nops + 1
        /\ UNCHANGED <<handles, hook>>

GetClone(hd) ==
    LET c == getClone(heap, handles[hd])
    IN  /\ nops < MaxOps
        /\ heap' = c.heap
        /\ handles' = Append(handles, c.val.a)
        /\ last' = Call("getClone", hd, <<>>, Undef, FALSE, "none", c.val)
        /\ nops' = nops + 1
        /\ UNCHANGED hook

Next ==
    \/ \E hd \in DOMAIN handles, key \in Paths, value \in Values : SetValue(hd, key, value)
    \/ \E hd \in DOMAIN handles, key \in Paths : GetValue(hd, key)
    \/ \E hd \in DOMAIN handles, key \in Paths, setUndefined \in BOOLEAN :
          DelValue(hd, key, setUndefined)
    \/ \E hd \in DOMAIN handles : GetClone(hd)

Spec == Init /\ [][Next]_vars

-----------------------------------------------------------------------------
(* Vocabulary of the properties: the tree of a handle and positions in it *)

\* the storage the last call was made on
Storage == handles[last.hd]

\* the segments of the path of the last call
Keys == parsePath(Trim(last.key))

TreeNow(hd) == View(heap, Ref(handles[hd]))
TreeBefore(hd) == View(last.pre, Ref(handles[hd]))

\* every object that existed before the last call is as it was
OldObjectsUntouched == SubSeq(heap, 1, Len(last.pre)) = last.pre

\* the child of a tree value under a segment, absent when there is none
TreeProp(tree, key) ==
    IF tree.t = "array" THEN
        IF key.k = "index"
        THEN IF key.n < tree.len /\ tree.e[key.n] # Hole THEN tree.e[key.n] ELSE Undef
        ELSE IF key.s \in DOMAIN tree.p THEN tree.p[key.s] ELSE Undef
    ELSE IF tree.t = "object" THEN
        IF PropName(key) \in DOMAIN tree.e THEN tree.e[PropName(key)] ELSE Undef
    ELSE IF tree.t = "string" /\ key.k = "index" /\ key.n < Len(tree.v)
         THEN Str(<<tree.v[key.n + 1]>>)
    ELSE Undef

\* what a sequence of segments resolves to in a tree value, absent when it is unreachable
RECURSIVE TreeAt(_, _)
TreeAt(tree, keys) ==
    IF keys = <<>> THEN tree
    ELSE IF IsNullish(tree) THEN Undef
    ELSE TreeAt(TreeProp(tree, keys[1]), Tail(keys))

Prefix(keys, i) == SubSeq(keys, 1, i)

\* some proper prefix of keys, the empty one excluded, resolves to a string, number or boolean
ScalarOnPath(tree, keys) ==
    \E i \in 1..(Len(keys) - 1) : IsRaw(TreeAt(tree, Prefix(keys, i)))

\* some proper prefix of keys resolves to null or undefined
AbsentOnPath(tree, keys) ==
    \E i \in 1..(Len(keys) - 1) : IsNullish(TreeAt(tree, Prefix(keys, i)))

\* the container the last segment of keys is looked up in
ParentIn(tree, keys) == TreeAt(tree, Prefix(keys, Len(keys) - 1))
LastKey(keys) == keys[Len(keys)]

\* keys addresses element i of an existing list
IsListElement(tree, keys) ==
    /\ Len(keys) >= 1
    /\ ParentIn(tree, keys).t = "array"
    /\ LastKey(keys).k = "index"
    /\ LastKey(keys).n < ParentIn(tree, keys).len

\* keys addresses an existing key of a mapping
IsMappingKey(tree, keys) ==
    /\ Len(keys) >= 1
    /\ ParentIn(tree, keys).t = "object"
    /\ PropName(LastKey(keys)) \in DOMAIN ParentIn(tree, keys).e

Absent(x) == x \in {Undef, Null, Hole}

\* what a get of the path of the last call returns now
ReadBack == getValue(heap, Storage, last.key)

-----------------------------------------------------------------------------
(* C1: write/read round trip *)

\* C1 as stated: for every path that is non-empty after trimming, a setValue that
\* completes without error is followed by a getValue of the same path that returns the
\* value written (deep-equal).
C1_RoundTripEveryPath ==
    (last.name = "setValue" /\ last.err = "none" /\ Trim(last.key) # <<>>)
        => (ReadBack.err = "none" /\ View(ReadBack.heap, ReadBack.val) = last.value)

\* C1 amended: the same, for every path that parsePath turns into at least one segment.
C1_RoundTrip ==
    (last.name = "setValue" /\ last.err = "none" /\ Keys # <<>>)
        => (ReadBack.err = "none" /\ View(ReadBack.heap, ReadBack.val) = last.value)

\* a structured value written two levels below a root that already held data
C1_Witness ==
    /\ last.name = "setValue" /\ last.err = "none"
    /\ Len(Keys) >= 2
    /\ last.value.t \in {"array", "object"}
    /\ TreeBefore(last.hd) # Obj(EmptyFcn)
    /\ View(ReadBack.heap, ReadBack.val) = last.value

-----------------------------------------------------------------------------
(* C2: the scalar guard *)

\* C2: a setValue whose path descends through a position that holds a string, number or
\* boolean fails with RawValueDetected, and after a RawValueDetected every object of the
\* tree is exactly as before: nothing created, no list converted.
C2_ScalarGuardAtomic ==
    last.name = "setValue" =>
        /\ (Trim(last.key) # <<>> /\ ScalarOnPath(TreeBefore(last.hd), Keys))
               => last.err = "RawValueDetected"
        /\ last.err = "RawValueDetected"
               => (OldObjectsUntouched /\ TreeNow(last.hd) = TreeBefore(last.hd))

\* the guard fired two levels down
C2_Witness ==
    /\ last.name = "setValue" /\ last.err = "RawValueDetected"
    /\ Len(Keys) >= 3
    /\ IsRaw(TreeAt(TreeBefore(last.hd), Prefix(Keys, 2)))
    /\ ~IsRaw(TreeAt(TreeBefore(last.hd), Prefix(Keys, 1)))

-----------------------------------------------------------------------------
(* C3: hard delete on a list *)

\* C3: a delValue with the default flag on element i of an existing list removes the
\* element and shifts the later ones down: the list is one shorter and the path reads
\* what was element i+1.
C3_HardDeleteShifts ==
    (last.name = "delValue" /\ ~last.flag /\ IsListElement(TreeBefore(last.hd), Keys)) =>
        LET L == ParentIn(TreeBefore(last.hd), Keys)
            M == ParentIn(TreeNow(last.hd), Keys)
            i == LastKey(Keys).n
        IN  /\ last.err = "none"
            /\ M.t = "array"
            /\ M.len = L.len - 1
            /\ \A j \in 0..(L.len - 2) : M.e[j] = IF j < i THEN L.e[j] ELSE L.e[j + 1]
            /\ ReadBack.err = "none"
            /\ View(ReadBack.heap, ReadBack.val) = TreeProp(L, Index(i + 1))

-----------------------------------------------------------------------------
(* C4: soft delete on a list *)

\* C4: a delValue with the flag set on element i of an existing list leaves the length,
\* makes element i absent and leaves every other element where and what it was.
C4_SoftDeleteKeepsLength ==
    (last.name = "delValue" /\ last.flag /\ IsListElement(TreeBefore(last.hd), Keys)) =>
        LET L == ParentIn(TreeBefore(last.hd), Keys)
            M == ParentIn(TreeNow(last.hd), Keys)
            i == LastKey(Keys).n
        IN  /\ last.err = "none"
            /\ M.t = "array"
            /\ M.len = L.len
            /\ Absent(M.e[i])
            /\ \A j \in 0..(L.len - 1) : j # i => M.e[j] = L.e[j]

-----------------------------------------------------------------------------
(* C5: delete on a mapping *)

\* C5: a delValue on an existing key k of a mapping removes k with the default flag and
\* keeps k with an absent value with the flag set; a following read returns absent.
C5_MappingDelete ==
    (last.name = "delValue" /\ IsMappingKey(TreeBefore(last.hd), Keys)) =>
        LET M == ParentIn(TreeNow(last.hd), Keys)
            k == PropName(LastKey(Keys))
        IN  /\ last.err = "none"
            /\ M.t = "object"
            /\ ~last.flag => k \notin DOMAIN M.e
            /\ last.flag => (k \in DOMAIN M.e /\ M.e[k] = Undef)
            /\ ReadBack.err = "none"
            /\ ReadBack.val = Undef

-----------------------------------------------------------------------------
(* C6: delete returns what it removed *)

\* C6: a delValue on a path that resolves to an existing value returns that value, for
\* both values of the flag, and returns absent only when nothing was removed.
C6_DeleteReturnsRemoved ==
    (last.name = "delValue" /\ Keys # <<>>
        /\ ~Absent(TreeAt(TreeBefore(last.hd), Keys)))
        => View(heap, last.ret) = TreeAt(TreeBefore(last.hd), Keys)

-----------------------------------------------------------------------------
(* C7: delete never fails and never creates structure *)

\* C7: a delValue raises no error for any path, and when an intermediate container of
\* the path is absent every object is exactly as before and none was created.
C7_DeleteTolerant ==
    last.name = "delValue" =>
        /\ last.err = "none"
        /\ AbsentOnPath(TreeBefore(last.hd), Keys) => heap = last.pre

\* a delete through an absent intermediate container
C7_Witness ==
    /\ last.name = "delValue"
    /\ AbsentOnPath(TreeBefore(last.hd), Keys)
    /\ last.err = "none"

-----------------------------------------------------------------------------
(* C8: the empty-path policy *)

\* C8: with a path that is empty or only whitespace, getValue and setValue fail with
\* KeyFormatException and leave every object as it was; delValue returns absent, changes
\* nothing and does not fail.
C8_EmptyPathPolicy ==
    (last.name \in {"setValue", "getValue", "delValue"} /\ Trim(last.key) = <<>>) =>
        /\ last.name \in {"setValue", "getValue"} => last.err = "KeyFormatException"
        /\ last.name = "delValue" => (last.err = "none" /\ last.ret = Undef)
        /\ OldObjectsUntouched
        /\ TreeNow(last.hd) = TreeBefore(last.hd)

\* a write with a whitespace-only path was refused
C8_Witness ==
    /\ last.name = "setValue"
    /\ last.key # <<>> /\ Trim(last.key) = <<>>
    /\ last.err = "KeyFormatException"

-----------------------------------------------------------------------------
(* C9: the read error boundary *)

-----------------------------------------------------------------------------
(* C10: clone independence *)

\* C10: no list or mapping is reachable from two handles, and a setValue or delValue on
\* one handle leaves the tree of every other handle, so every read through it, unchanged.
C10_CloneIndependence ==
    /\ \A g, h \in DOMAIN handles :
           g # h => Reach(heap, Ref(handles[g])) \cap Reach(heap, Ref(handles[h])) = {}
    /\ last.name \in {"setValue", "delValue"} =>
           \A g \in DOMAIN handles \ {last.hd} :
               View(heap, Ref(handles[g])) = View(last.pre, Ref(handles[g]))

\* after a snapshot, a write below the top level changed the tree it was made on
C10_Witness ==
    /\ Len(handles) >= 2
    /\ last.name = "setValue" /\ last.err = "none"
    /\ Len(Keys) >= 2
    /\ TreeNow(last.hd) # TreeBefore(last.hd)
    /\ \E g \in DOMAIN handles \ {last.hd} : TreeBefore(g) = TreeBefore(last.hd)

-----------------------------------------------------------------------------
(* C12: the list-to-mapping downgrade *)

\* the position at which the last setValue met a list where its next segment is a Key
DowngradeAt(i) ==
    /\ i \in 1..(Len(Keys) - 1)
    /\ TreeAt(TreeBefore(last.hd), Prefix(Keys, i)).t = "array"
    /\ Keys[i + 1].k = "key"

\* what a get of the segments ks returns, as a tree value
ReadKeys(h, ks) == LET g == GetWalk(h, Ref(Storage), ks, 1) IN View(g.heap, g.val)

\* C12 as stated: the list is replaced by a mapping that has an entry keyed by i with the
\* same value for every position i of the list, plus the newly written key, and get
\* returns each element at its former index path.
C12_DowngradeEveryPosition ==
    last.name = "setValue" =>
        \A i \in 1..(Len(Keys) - 1) : DowngradeAt(i) =>
            LET L == TreeAt(TreeBefore(last.hd), Prefix(Keys, i))
                M == TreeAt(TreeNow(last.hd), Prefix(Keys, i))
            IN  /\ last.err = "none"
                /\ M.t = "object"
                /\ \A j \in 0..(L.len - 1) :
                       /\ NumStr(j) \in DOMAIN M.e
                       /\ M.e[NumStr(j)] = TreeProp(L, Index(j))
                /\ Keys[i + 1].s \in DOMAIN M.e

\* C12 amended: the mapping has an entry keyed by i with the same value for every
\* position i of the list that holds an element (a position skipped by a write beyond
\* the end holds none and gets no entry), plus the newly written key, and nothing else;
\* get returns at every former index path what it returned before.
C12_DowngradePreserves ==
    last.name = "setValue" =>
        \A i \in 1..(Len(Keys) - 1) : DowngradeAt(i) =>
            LET L == TreeAt(TreeBefore(last.hd), Prefix(Keys, i))
                M == TreeAt(TreeNow(last.hd), Prefix(Keys, i))
                held == {j \in 0..(L.len - 1) : L.e[j] # Hole}
            IN  /\ last.err = "none"
                /\ M.t = "object"
                /\ DOMAIN M.e = {NumStr(j) : j \in held} \cup {Keys[i + 1].s}
                /\ \A j \in held : M.e[NumStr(j)] = L.e[j]
                /\ \A j \in 0..(L.len - 1) :
                       ReadKeys(heap, Prefix(Keys, i) \o <<Index(j)>>)
                           = ReadKeys(last.pre, Prefix(Keys, i) \o <<Index(j)>>)

\* a list of two elements, one of them a mapping, was downgraded
C12_Witness ==
    /\ last.name = "setValue" /\ last.err = "none"
    /\ DowngradeAt(1)
    /\ LET L == TreeAt(TreeBefore(last.hd), Prefix(Keys, 1))
       IN  L.len = 2 /\ L.e[0].t = "object" /\ L.e[1] # Hole
    /\ TreeAt(TreeNow(last.hd), Prefix(Keys, 1)).t = "object"

-----------------------------------------------------------------------------
(* C13: shape inference by lookahead *)

\* C13: where the last successful setValue met an absent slot at an intermediate
\* segment, it created a list when the next segment is an Index and a mapping when it is
\* a Key, holding nothing but the child the path goes on with.
C13_ShapeByLookahead ==
    (last.name = "setValue" /\ last.err = "none") =>
        \A i \in 1..(Len(Keys) - 1) :
            IsNullish(TreeAt(TreeBefore(last.hd), Prefix(Keys, i))) =>
                LET N == TreeAt(TreeNow(last.hd), Prefix(Keys, i))
                    next == Keys[i + 1]
                IN  IF next.k = "index"
                    THEN /\ N.t = "array"
                         /\ N.len = next.n + 1
                         /\ \A j \in 0..(next.n - 1) : N.e[j] = Hole
                    ELSE /\ N.t = "object"
                         /\ DOMAIN N.e = {next.s}

\* "a[1].b" written into an empty root: a list, and a mapping in it
C13_Witness ==
    /\ last.name = "setValue" /\ last.err = "none"
    /\ TreeBefore(last.hd) = Obj(EmptyFcn)
    /\ Len(Keys) = 3
    /\ Keys[2].k = "index" /\ Keys[3].k = "key"
    /\ TreeAt(TreeNow(last.hd), Prefix(Keys, 1)).t = "array"
    /\ TreeAt(TreeNow(last.hd), Prefix(Keys, 2)).t = "object"

-----------------------------------------------------------------------------
(* The parser on its own: paths built from tokens *)

MaxTokens == 3

\* dotted tokens, each with the segment it stands for
DotTokens ==
    { [kind |-> "dot", cs |-> <<"a">>, seg |-> Key("a")],
      [kind |-> "dot", cs |-> <<"0">>, seg |-> Index(0)],
      [kind |-> "dot", cs |-> <<"0", "1">>, seg |-> Index(1)],
      [kind |-> "dot", cs |-> <<"2", "5">>, seg |-> Index(25)],
      [kind |-> "dot", cs |-> <<"b", "2">>, seg |-> Key("b2")],
      [kind |-> "dot", cs |-> <<"2", "b">>, seg |-> Key("2b")],
      [kind |-> "dot", cs |-> <<"x", " ", "y">>, seg |-> Key("x y")] }

\* bracketed tokens [N]
BracketTokens ==
    { [kind |-> "bracket", cs |-> <<"0">>, seg |-> Index(0)],
      [kind |-> "bracket", cs |-> <<"5">>, seg |-> Index(5)],
      [kind |-> "bracket", cs |-> <<"1", "2">>, seg |-> Index(12)] }

Tokens == DotTokens \cup BracketTokens

\* the path string of a token sequence: dotted tokens are joined by ".", a bracketed
\* token follows what precedes it directly
RECURSIVE Render(_, _)
Render(toks, i) ==
    IF i > Len(toks) THEN <<>>
    ELSE (IF toks[i].kind = "bracket" THEN <<"[">> \o toks[i].cs \o <<"]">>
          ELSE IF i = 1 THEN toks[i].cs
          ELSE <<".">> \o toks[i].cs)
         \o Render(toks, i + 1)

TokenSeqs == UNION {[1..n -> Tokens] : n \in 1..MaxTokens}

NoHook == [captured |-> 0, pending |-> 0]

InitParse ==
    \E toks \in TokenSeqs :
        /\ heap = <<>>
        /\ handles = <<>>
        /\ last = [name |-> "path", tokens |-> toks, key |-> Render(toks, 1), ret |-> <<>>]
        /\ nops = 0
        /\ hook = NoHook

ParsePath ==
    /\ last.name = "path"
    /\ last' = [last EXCEPT !.name = "parsePath", !.ret = parsePath(last.key)]
    /\ nops' = nops + 1
    /\ UNCHANGED <<heap, handles, hook>>

NextParse == ParsePath

SpecParse == InitParse /\ [][NextParse]_vars

\* C11: parsePath yields exactly one segment per token, in order: an Index for every
\* all-digit dotted token and every bracketed token, a Key for every other dotted token;
\* so a dotted and a bracketed index parse alike.
C11_SegmentPerToken ==
    last.name = "parsePath" =>
        /\ Len(last.ret) = Len(last.tokens)
        /\ \A i \in 1..Len(last.tokens) : last.ret[i] = last.tokens[i].seg

\* "a.0" and "a[5]"-like paths parsed: a key, a dotted index and a bracketed index
C11_Witness ==
    /\ last.name = "parsePath"
    /\ Len(last.tokens) = 3
    /\ last.tokens[1].seg.k = "key"
    /\ last.tokens[2].kind = "dot" /\ last.tokens[2].seg.k = "index"
    /\ last.tokens[3].kind = "bracket"
    /\ last.ret = <<last.tokens[1].seg, last.tokens[2].seg, last.tokens[3].seg>>

-----------------------------------------------------------------------------
(* useLocalStorage: the functions returned by one render close over the instance that
   render read from useState; setKeyValueStorage hands React the instance of the next
   render *)

MaxHookOps == 3

HookPaths == { <<"a">>, <<"b">>, <<"a", ".", "b">> }

HookValues == { Num(7), Obj([b |-> Str(<<"s">>)]) }

\* keyValueStorage of the current render
Captured == handles[hook.captured]

\* getStorageValue
GetStorageValue(key) ==
    LET r == getValue(heap, Captured, key)
    IN  /\ nops < MaxHookOps
        /\ heap' = r.heap
        /\ last' = Call("getStorageValue", hook.captured, key, Undef, FALSE, r.err, r.val)
        /\ nops' = nops + 1
        /\ UNCHANGED <<handles, hook>>

\* setStorageValue: an exception of setValue leaves before setKeyValueStorage
SetStorageValue(key, value, forceUpdateState) ==
    LET b == Build(heap, value)
        r == setValue(b.heap, Captured, key, b.val)
        c == getClone(r.heap, Captured)
    IN  /\ nops < MaxHookOps
        /\ last' = Call("setStorageValue", hook.captured, key, value, forceUpdateState,
                        r.err, Undef)
        /\ nops' = nops + 1
        /\ IF forceUpdateState /\ r.err = "none"
           THEN /\ heap' = c.heap
                /\ handles' = Append(handles, c.val.a)
                /\ hook' = [hook EXCEPT !.pending = Len(handles) + 1]
           ELSE /\ heap' = r.heap
                /\ UNCHANGED <<handles, hook>>

\* deleteStorageValue: returns nothing
DeleteStorageValue(key, setUndefined, forceUpdateState) ==
    LET r == delValue(heap, Captured, key, setUndefined)
        c == getClone(r.heap, Captured)
    IN  /\ nops < MaxHookOps
        /\ last' = Call("deleteStorageValue", hook.captured, key, Undef, setUndefined,
                        r.err, Undef)
        /\ nops' = nops + 1
        /\ IF forceUpdateState /\ r.err = "none"
           THEN /\ heap' = c.heap
                /\ handles' = Append(handles, c.val.a)
                /\ hook' = [hook EXCEPT !.pending = Len(handles) + 1]
           ELSE /\ heap' = r.heap
                /\ UNCHANGED <<handles, hook>>

\* updateStorageState
UpdateStorageState ==
    LET c == getClone(heap, Captured)
    IN  /\ nops < MaxHookOps
        /\ heap' = c.heap
        /\ handles' = Append(handles, c.val.a)
        /\ hook' = [hook EXCEPT !.pending = Len(handles) + 1]
        /\ last' = Call("updateStorageState", hook.captured, <<>>, Undef, FALSE, "none", Undef)
        /\ nops' = nops + 1

\* the re-render React makes after setKeyValueStorage: useState returns the instance
\* passed last, and the functions of the new render close over it
ReRender ==
    /\ hook.pending # 0
    /\ nops < MaxHookOps
    /\ hook' = [captured |-> hook.pending, pending |-> 0]
    /\ last' = Call("render", hook.captured, <<>>, Undef, FALSE, "none", Undef)
    /\ nops' = nops + 1
    /\ UNCHANGED <<heap, handles>>

NextHook ==
    \/ \E key \in HookPaths : GetStorageValue(key)
    \/ \E key \in HookPaths, value \in HookValues, force \in BOOLEAN :
          SetStorageValue(key, value, force)
    \/ \E key \in HookPaths, setUndefined \in BOOLEAN, force \in BOOLEAN :
          DeleteStorageValue(key, setUndefined, force)
    \/ UpdateStorageState
    \/ ReRender

SpecHook == Init /\ [][NextHook]_vars

\* what getStorageValue(key) gives on the instance of handle hd: the outcome and the value
ReadThrough(hd, key) ==
    LET g == getValue(heap, handles[hd], key) IN [err |-> g.err, val |-> View(g.heap, g.val)]

====
